---- MODULE Spec2Model ----
(***************************************************************************)
(* GPS C/A (Gold) code generator of PySatNav, src/ca_code_gen.py.          *)
(*                                                                         *)
(* The program is two Python generator functions, lfsr(seed, taps) and     *)
(* ca_code_gen(sv).  Python lists are mutable objects that are passed by   *)
(* reference, so the model keeps a heap of list objects and the frames of  *)
(* the generator objects refer to lists by address.  Calling a generator   *)
(* function only creates a suspended frame; the body runs on next().       *)
(***************************************************************************)
EXTENDS Integers, Sequences, FiniteSets, TLC

VARIABLES
    heap,    \* the list objects: heap[a] is the contents of the list at address a
    lfsrs,   \* the frames of the lfsr generator objects
    gens,    \* the frames of the ca_code_gen generator objects
    obj,     \* the generator object the caller holds in each of its handles
    src,     \* the caller's own seed vector: its address and its contents when made
    given,   \* per handle, the contents of the seed vector when lfsr was called on it
    out,     \* per handle, the values the next() calls on it have returned
    exc      \* per handle, the exceptions the next() calls on it have raised

vars == <<heap, lfsrs, gens, obj, src, given, out, exc>>

----------------------------------------------------------------------------
(* Bounds of the model *)

\* next() calls the caller makes on each of two ca_code_gen generators
MaxPulls == 12

\* next() calls the caller makes on each of two lfsr instances
MaxBits == 4

\* next() calls the caller makes when it drives a single C/A generator
PeriodPulls == 2046

\* the caller's handles
Handles == {"a", "b"}

\* SV ids the caller asks for when it drives two generators: valid ones from
\* both ends and the middle of the table, and the invalid neighbours of 1..32
SVs == {0, 1, 7, 24, 32, 33}

\* seed vectors the caller makes for its own lfsr instances
SeedSet ==
    { <<1, 1, 1, 1, 1, 1, 1, 1, 1, 1>>,
      <<1, 1, 1, 1, 1, 0, 1, 1, 0, 0>>,
      <<1, 0, 1, 1, 0, 0, 1, 0, 1, 1>>,
      <<0, 0, 0, 0, 0, 0, 0, 0, 0, 1>>,
      <<1, 1, 1, 1, 1, 1, 1, 1, 1>>,
      <<0, 1, 1, 0, 1, 0, 0, 1, 1, 0, 1>> }

\* tap masks the caller passes to its own lfsr instances
TapSet ==
    { <<0, 0, 1, 0, 0, 0, 0, 0, 0, 1>>,
      <<0, 1, 1, 0, 0, 1, 0, 1, 1, 1>>,
      <<0, 0, 0, 0, 0, 0, 0, 0, 0, 0>>,
      <<1, 0, 0, 1, 0, 0, 0, 1, 1>> }

----------------------------------------------------------------------------
(* The constant data of ca_code_gen *)

\* init_codes, the dict literal of lines 15-46: row k is the value of key k
InitCodeRows ==
    << <<1, 1, 1, 1, 1, 0, 1, 1, 0, 0>>,
       <<1, 1, 1, 1, 0, 1, 1, 0, 0, 0>>,
       <<1, 1, 1, 0, 1, 1, 0, 0, 0, 0>>,
       <<1, 1, 0, 1, 1, 0, 0, 0, 0, 0>>,
       <<0, 0, 1, 0, 0, 1, 0, 1, 1, 0>>,
       <<0, 1, 0, 0, 1, 0, 1, 1, 0, 0>>,
       <<0, 1, 1, 0, 0, 1, 0, 1, 1, 0>>,
       <<1, 1, 0, 0, 1, 0, 1, 1, 0, 0>>,
       <<1, 0, 0, 1, 0, 1, 1, 0, 0, 0>>,
       <<1, 1, 0, 1, 1, 1, 0, 1, 0, 0>>,
       <<1, 0, 1, 1, 1, 0, 1, 0, 0, 0>>,
       <<1, 1, 1, 0, 1, 0, 0, 0, 0, 0>>,
       <<1, 1, 0, 1, 0, 0, 0, 0, 0, 0>>,
       <<1, 0, 1, 0, 0, 0, 0, 0, 0, 0>>,
       <<0, 1, 0, 0, 0, 0, 0, 0, 0, 0>>,
       <<1, 0, 0, 0, 0, 0, 0, 0, 0, 0>>,
       <<1, 0, 0, 0, 1, 0, 0, 1, 1, 0>>,
       <<0, 0, 0, 1, 0, 0, 1, 1, 0, 0>>,
       <<0, 0, 1, 0, 0, 1, 1, 0, 0, 0>>,
       <<0, 1, 0, 0, 1, 1, 0, 0, 0, 0>>,
       <<1, 0, 0, 1, 1, 0, 0, 0, 0, 0>>,
       <<0, 0, 1, 1, 0, 0, 0, 0, 0, 0>>,
       <<0, 0, 1, 1, 0, 0, 1, 1, 1, 0>>,
       <<1, 0, 0, 1, 1, 1, 0, 0, 0, 0>>,
       <<0, 0, 1, 1, 1, 0, 0, 0, 0, 0>>,
       <<0, 1, 1, 1, 0, 0, 0, 0, 0, 0>>,
       <<1, 1, 1, 0, 0, 0, 0, 0, 0, 0>>,
       <<1, 1, 0, 0, 0, 0, 0, 0, 0, 0>>,
       <<0, 0, 0, 1, 0, 1, 0, 1, 1, 0>>,
       <<0, 0, 1, 0, 1, 0, 1, 1, 0, 0>>,
       <<0, 1, 0, 1, 0, 1, 1, 0, 0, 0>>,
       <<1, 0, 1, 0, 1, 1, 0, 0, 0, 0>> >>

\* LFSR-1 started from ten 0s
Seed1Zeros == [i \in 1..10 |-> 0]

\* [1] * 10, the seed of LFSR-1 (line 49)
Seed1 == [i \in 1..10 |-> 1]

\* a slip in LFSR-1's mask: the taps at stages 3 and 9 instead of 3 and 10
Taps1Shifted == <<0, 0, 1, 0, 0, 0, 0, 0, 1, 0>>

\* the tap mask of LFSR-1 (line 49)
Taps1 == <<0, 0, 1, 0, 0, 0, 0, 0, 0, 1>>

\* a slip in LFSR-2's mask: the tap at stage 8 left out
Taps2Missing == <<0, 1, 1, 0, 0, 1, 0, 0, 1, 1>>

\* the tap mask of LFSR-2 (line 52)
Taps2 == <<0, 1, 1, 0, 0, 1, 0, 1, 1, 1>>

----------------------------------------------------------------------------
(* Lists and the heap *)

\* a new list object with contents l; its address is Len(h) + 1
Alloc(h, l) == Append(h, l)

\* the new bit put at the rear of the list instead of the front
Insert0Rear(l, x) == Append(l, x)

\* list.insert(0, x)
Insert0(l, x) == <<x>> \o l

\* a pop that returns the last element and leaves it in the list
PopRestKeep(l) == l

\* a pop from the front of the list instead of the rear
PopValueFront(l) == l[1]

\* list.pop(): the element returned and the list left behind
PopValue(l) == l[Len(l)]
PopRest(l) == SubSeq(l, 1, Len(l) - 1)

\* a ^ b on bits
Xor(a, b) == IF a = b THEN 0 ELSE 1

Min(a, b) == IF a <= b THEN a ELSE b

----------------------------------------------------------------------------
(* lfsr(seed, taps), lines 59-75.  An interpreter state S is a record with *)
(* the fields heap, lfsrs and gens; an operation returns the state it      *)
(* leaves together with what the call returned.                            *)

\* the call lfsr(seed, taps): a suspended frame, no line of the body has run
LfsrCall(seed, taps) ==
    [pc |-> "start", seed |-> seed, taps |-> taps, state |-> 0]

\* lines 70-73 over the first n pairs of zip(state, taps)
RECURSIVE FeedbackUpTo(_, _, _)
FeedbackUpTo(state, taps, n) ==
    IF n = 0 THEN 0
    ELSE LET f == FeedbackUpTo(state, taps, n - 1)
         IN  IF taps[n] = 1 THEN Xor(f, state[n]) ELSE f

\* a feedback that XORs every bit of the register, tapped or not
FeedbackUntapped(state, taps) ==
    FeedbackUpTo(state, [k \in 1..Len(taps) |-> 1], Min(Len(state), Len(taps)))

\* lines 70-73: zip stops at the shorter of the two lists
Feedback(state, taps) ==
    FeedbackUpTo(state, taps, Min(Len(state), Len(taps)))

\* next() on the lfsr frame l: line 68 on the first call, then lines 69-75
\* up to the yield
LfsrNext(S, l) ==
    LET fr       == S.lfsrs[l]
        state    == IF fr.pc = "start" THEN fr.seed ELSE fr.state
        feedback == Feedback(S.heap[state], S.heap[fr.taps])
        inserted == Insert0(S.heap[state], feedback)
    IN  [heap  |-> [S.heap EXCEPT ![state] = PopRest(inserted)],
         lfsrs |-> [S.lfsrs EXCEPT ![l] = [fr EXCEPT !.pc = "yield",
                                                     !.state = state]],
         gens  |-> S.gens,
         value |-> PopValue(inserted)]

----------------------------------------------------------------------------
(* ca_code_gen(sv), lines 6-56 *)

\* the call ca_code_gen(sv): a suspended frame, no line of the body has run
CaCall(sv) ==
    [pc |-> "start", sv |-> sv, init_codes |-> <<>>, lfsr1 |-> 0, lfsr2 |-> 0]

\* a lookup that falls back on the first row for a key the dict lacks
LookupDefault(dict, key) ==
    IF key \in DOMAIN dict
    THEN [found |-> TRUE, value |-> dict[key]]
    ELSE [found |-> TRUE, value |-> dict[1]]

\* a lookup in a table that stops one key short
LookupShort(dict, key) ==
    IF key \in DOMAIN dict /\ key + 1 \in DOMAIN dict
    THEN [found |-> TRUE, value |-> dict[key]]
    ELSE [found |-> FALSE, value |-> 0]

\* a lookup that takes the first row whatever the key
LookupFirst(dict, key) ==
    IF key \in DOMAIN dict
    THEN [found |-> TRUE, value |-> dict[1]]
    ELSE [found |-> FALSE, value |-> 0]

\* a lookup whose index is clamped one short of the last row
LookupClamped(dict, key) ==
    IF key \in DOMAIN dict
    THEN [found |-> TRUE,
          value |-> dict[IF key + 1 \in DOMAIN dict THEN key ELSE key - 1]]
    ELSE [found |-> FALSE, value |-> 0]

\* init_codes[sv], line 52: the row's address, or a KeyError
Lookup(dict, key) ==
    IF key \in DOMAIN dict
    THEN [found |-> TRUE, value |-> dict[key]]
    ELSE [found |-> FALSE, value |-> 0]

\* the chip mapping with its polarity swapped
ChipOfInverted(asymmetric) ==
    CASE asymmetric = 0 -> 1
      [] asymmetric = 1 -> -1

\* the combined bit yielded as it is, without the mapping to -1/+1
ChipOfUnmapped(asymmetric) == asymmetric

\* {0: -1, 1: 1}[asymmetric], line 56
ChipOf(asymmetric) ==
    CASE asymmetric = 0 -> -1
      [] asymmetric = 1 -> 1

\* init_codes built once and kept for every generator: a generator that
\* starts after another one looks its row up in the lists of the first
CaStartShared(S, g) ==
    LET fr      == S.gens[g]
        started == {k \in DOMAIN S.gens : S.gens[k].pc = "yield"}
        base    == Len(S.heap)
        dict    == IF started = {}
                   THEN [k \in DOMAIN InitCodeRows |-> base + k]
                   ELSE S.gens[CHOOSE k \in started : TRUE].init_codes
        h0      == IF started = {} THEN S.heap \o InitCodeRows ELSE S.heap
        h1      == Alloc(Alloc(h0, Seed1), Taps1)
        ls1     == Append(S.lfsrs, LfsrCall(Len(h1) - 1, Len(h1)))
        row     == Lookup(dict, fr.sv)
        h2      == Alloc(h1, Taps2)
        ls2     == Append(ls1, LfsrCall(row.value, Len(h2)))
    IN  IF row.found
        THEN [heap   |-> h2,
              lfsrs  |-> ls2,
              gens   |-> [S.gens EXCEPT ![g] =
                             [fr EXCEPT !.pc = "yield", !.init_codes = dict,
                                        !.lfsr1 = Len(ls1), !.lfsr2 = Len(ls2)]],
              raised |-> FALSE]
        ELSE [heap   |-> h1,
              lfsrs  |-> ls1,
              gens   |-> [S.gens EXCEPT ![g] = [fr EXCEPT !.pc = "done"]],
              raised |-> TRUE]

\* lines 15-52 on the first next(): the 32 rows of the dict literal are new
\* lists, LFSR-1 is made, then init_codes[sv] is looked up and LFSR-2 is made
CaStart(S, g) ==
    LET fr    == S.gens[g]
        base  == Len(S.heap)
        dict  == [k \in DOMAIN InitCodeRows |-> base + k]
        h1    == Alloc(Alloc(S.heap \o InitCodeRows, Seed1), Taps1)
        ls1   == Append(S.lfsrs, LfsrCall(Len(h1) - 1, Len(h1)))
        row   == Lookup(dict, fr.sv)
        h2    == Alloc(h1, Taps2)
        ls2   == Append(ls1, LfsrCall(row.value, Len(h2)))
    IN  IF row.found
        THEN [heap   |-> h2,
              lfsrs  |-> ls2,
              gens   |-> [S.gens EXCEPT ![g] =
                             [fr EXCEPT !.pc = "yield", !.init_codes = dict,
                                        !.lfsr1 = Len(ls1), !.lfsr2 = Len(ls2)]],
              raised |-> FALSE]
        ELSE [heap   |-> h1,
              lfsrs  |-> ls1,
              gens   |-> [S.gens EXCEPT ![g] = [fr EXCEPT !.pc = "done"]],
              raised |-> TRUE]

\* a turn of the loop that steps LFSR-1 twice and LFSR-2 not at all
CaLoopSkewed(S, g) ==
    LET fr == S.gens[g]
        r1 == LfsrNext(S, fr.lfsr1)
        r2 == LfsrNext(r1, fr.lfsr1)
        asymmetric == Xor(r1.value, r2.value)
    IN  [heap |-> r2.heap, lfsrs |-> r2.lfsrs, gens |-> r2.gens,
         value |-> ChipOf(asymmetric)]

\* lines 54-56: one turn of the loop, up to the yield
CaLoop(S, g) ==
    LET fr == S.gens[g]
        r1 == LfsrNext(S, fr.lfsr1)
        r2 == LfsrNext(r1, fr.lfsr2)
        asymmetric == Xor(r1.value, r2.value)
    IN  [heap |-> r2.heap, lfsrs |-> r2.lfsrs, gens |-> r2.gens,
         value |-> ChipOf(asymmetric)]

\* next() on the ca_code_gen frame g
CaNext(S, g) ==
    LET fr == S.gens[g]
        started == IF fr.pc = "start" THEN CaStart(S, g)
                   ELSE [heap |-> S.heap, lfsrs |-> S.lfsrs, gens |-> S.gens,
                         raised |-> FALSE]
        looped == CaLoop(started, g)
    IN  IF fr.pc = "done"
        THEN [heap |-> S.heap, lfsrs |-> S.lfsrs, gens |-> S.gens,
              kind |-> "StopIteration", value |-> 0]
        ELSE IF started.raised
        THEN [heap |-> started.heap, lfsrs |-> started.lfsrs,
              gens |-> started.gens, kind |-> "KeyError", value |-> 0]
        ELSE [heap |-> looped.heap, lfsrs |-> looped.lfsrs,
              gens |-> looped.gens, kind |-> "value", value |-> looped.value]

----------------------------------------------------------------------------
(* The caller *)

Cur == [heap |-> heap, lfsrs |-> lfsrs, gens |-> gens]

Init ==
    /\ heap = <<>>
    /\ lfsrs = <<>>
    /\ gens = <<>>
    /\ obj = [i \in Handles |-> [kind |-> "none", id |-> 0]]
    /\ src = [addr |-> 0, orig |-> <<>>]
    /\ given = [i \in Handles |-> <<>>]
    /\ out = [i \in Handles |-> <<>>]
    /\ exc = [i \in Handles |-> <<>>]

\* the caller makes a seed vector of its own
NewSeed(s) ==
    /\ src.addr = 0
    /\ gens = <<>>
    /\ heap' = Alloc(heap, s)
    /\ src' = [addr |-> Len(heap) + 1, orig |-> s]
    /\ UNCHANGED <<lfsrs, gens, obj, given, out, exc>>

\* handle i = lfsr(the caller's seed vector, a new tap list)
NewLfsr(i, taps) ==
    /\ obj[i].kind = "none"
    /\ src.addr # 0
    /\ heap' = Alloc(heap, taps)
    /\ lfsrs' = Append(lfsrs, LfsrCall(src.addr, Len(heap) + 1))
    /\ obj' = [obj EXCEPT ![i] = [kind |-> "lfsr", id |-> Len(lfsrs) + 1]]
    /\ given' = [given EXCEPT ![i] = heap[src.addr]]
    /\ UNCHANGED <<gens, src, out, exc>>

\* next(handle i), an lfsr
PullLfsr(i, limit) ==
    /\ obj[i].kind = "lfsr"
    /\ Len(out[i]) < limit
    /\ LET r == LfsrNext(Cur, obj[i].id)
       IN  /\ heap' = r.heap
           /\ lfsrs' = r.lfsrs
           /\ out' = [out EXCEPT ![i] = Append(@, r.value)]
    /\ UNCHANGED <<gens, obj, src, given, exc>>

\* handle i = ca_code_gen(sv)
NewGen(i, sv) ==
    /\ obj[i].kind = "none"
    /\ src.addr = 0
    /\ gens' = Append(gens, CaCall(sv))
    /\ obj' = [obj EXCEPT ![i] = [kind |-> "gen", id |-> Len(gens) + 1]]
    /\ UNCHANGED <<heap, lfsrs, src, given, out, exc>>

\* next(handle i), a ca_code_gen generator
PullGen(i, limit) ==
    /\ obj[i].kind = "gen"
    /\ Len(out[i]) + Len(exc[i]) < limit
    /\ LET r == CaNext(Cur, obj[i].id)
       IN  /\ heap' = r.heap
           /\ lfsrs' = r.lfsrs
           /\ gens' = r.gens
           /\ out' = [out EXCEPT ![i] =
                         IF r.kind = "value" THEN Append(@, r.value) ELSE @]
           /\ exc' = [exc EXCEPT ![i] =
                         IF r.kind = "value" THEN @ ELSE Append(@, r.kind)]
    /\ UNCHANGED <<obj, src, given>>

\* a caller that drives two lfsr instances made from its one seed vector, or
\* two ca_code_gen generators, with the next() calls in any order
Next ==
    \/ \E s \in SeedSet : NewSeed(s)
    \/ \E i \in Handles, t \in TapSet : NewLfsr(i, t)
    \/ \E i \in Handles : PullLfsr(i, MaxBits)
    \/ \E i \in Handles, sv \in SVs : NewGen(i, sv)
    \/ \E i \in Handles : PullGen(i, MaxPulls)

Spec == Init /\ [][Next]_vars

\* a caller that drives one generator object for two code periods: a
\* ca_code_gen generator of a valid SV, or an lfsr instance
NextPeriod ==
    \/ \E sv \in DOMAIN InitCodeRows : NewGen("a", sv)
    \/ PullGen("a", PeriodPulls)
    \/ \E s \in SeedSet : NewSeed(s)
    \/ \E t \in TapSet : NewLfsr("a", t)
    \/ PullLfsr("a", PeriodPulls)

SpecPeriod == Init /\ [][NextPeriod]_vars

\* every 10-bit seed vector
AllSeeds == [1..10 -> {0, 1}]

\* tap masks of 10 bits: those of LFSR-1 and LFSR-2, no tap, every tap, and
\* each single tap
MaskSet ==
    {Taps1, Taps2, [k \in 1..10 |-> 0], [k \in 1..10 |-> 1]}
        \cup {[k \in 1..10 |-> IF k = j THEN 1 ELSE 0] : j \in 1..10}

\* a caller that drives one lfsr instance made from any 10-bit seed
NextShift ==
    \/ \E s \in AllSeeds : NewSeed(s)
    \/ \E t \in MaskSet : NewLfsr("a", t)
    \/ PullLfsr("a", MaxPulls)

SpecShift == Init /\ [][NextShift]_vars

----------------------------------------------------------------------------
(* The reference C/A code of the GPS interface specification: G1 with      *)
(* feedback from stages 3 and 10, G2 with feedback from stages 2, 3, 6, 8, *)
(* 9 and 10, both started at all ones; the G2 output is the XOR of the two *)
(* stages the PRN's phase selector names, and the code bit is that XORed   *)
(* with stage 10 of G1.                                                    *)

\* the phase selector of PRN 1..32
PhaseSelect ==
    << <<2, 6>>, <<3, 7>>, <<4, 8>>, <<5, 9>>, <<1, 9>>, <<2, 10>>, <<1, 8>>,
       <<2, 9>>, <<3, 10>>, <<2, 3>>, <<3, 4>>, <<5, 6>>, <<6, 7>>, <<7, 8>>,
       <<8, 9>>, <<9, 10>>, <<1, 4>>, <<2, 5>>, <<3, 6>>, <<4, 7>>, <<5, 8>>,
       <<6, 9>>, <<1, 3>>, <<4, 6>>, <<5, 7>>, <<6, 8>>, <<7, 9>>, <<8, 10>>,
       <<1, 6>>, <<2, 7>>, <<3, 8>>, <<4, 9>> >>

RefG1Shift(r) == <<Xor(r[3], r[10])>> \o SubSeq(r, 1, 9)

RefG2Shift(r) ==
    <<Xor(Xor(Xor(r[2], r[3]), Xor(r[6], r[8])), Xor(r[9], r[10]))>>
        \o SubSeq(r, 1, 9)

\* the registers of the reference generator at the chips 1..n, n >= 1,
\* from the registers r at chip 1
RECURSIVE RefRegs(_, _)
RefRegs(r, n) ==
    IF n = 1 THEN <<r>>
    ELSE LET half == n \div 2
             left == RefRegs(r, half)
             last == left[half]
         IN  left \o RefRegs([g1 |-> RefG1Shift(last.g1),
                              g2 |-> RefG2Shift(last.g2)], n - half)

RefPeriod == RefRegs([g1 |-> [i \in 1..10 |-> 1], g2 |-> [i \in 1..10 |-> 1]], 1023)

\* chip n (from 1) of the reference code of PRN sv
RefChip(sv, n) ==
    LET r == RefPeriod[((n - 1) % 1023) + 1]
        b == Xor(r.g1[10], Xor(r.g2[PhaseSelect[sv][1]], r.g2[PhaseSelect[sv][2]]))
    IN  IF b = 0 THEN -1 ELSE 1

\* C2: for every SV id in 1..32, each chip ca_code_gen(sv) yields is the chip
\* at the same position of the reference C/A code of PRN sv (stated of the
\* chip of the latest pull: every chip is the latest one right after its pull)
C2MatchesReference ==
    \A i \in Handles :
        (obj[i].kind = "gen" /\ out[i] # <<>>) =>
            out[i][Len(out[i])] = RefChip(gens[obj[i].id].sv, Len(out[i]))

\* C2 is checked on a generator that has yielded a full period for the last
\* SV of the table
C2Witness ==
    /\ obj["a"].kind = "gen"
    /\ gens[obj["a"].id].sv = 32
    /\ Len(out["a"]) = 1023

----------------------------------------------------------------------------
(* Periodicity *)

\* C1: for every SV id in 1..32, chip n + 1023 of ca_code_gen(sv) is chip n,
\* n in 0..1022 (stated of the chip of the latest pull, once the caller has
\* pulled more than 1023 chips; the caller pulls two periods)
C1PeriodicChips ==
    \A i \in Handles :
        (obj[i].kind = "gen" /\ Len(out[i]) > 1023) =>
            out[i][Len(out[i])] = out[i][Len(out[i]) - 1023]

\* C1 is checked on a generator that has yielded two full periods
C1Witness ==
    /\ obj["a"].kind = "gen"
    /\ gens[obj["a"].id].sv \in 1..32
    /\ Len(out["a"]) = 2046

----------------------------------------------------------------------------
(* Alphabet *)

\* C9: every chip ca_code_gen(sv) yields, sv in 1..32, is -1 or +1, and
\* every value lfsr yields for a seed of 0/1 values is 0 or 1 (stated of the
\* value of the latest pull, after any number of pulls)
C9Alphabet ==
    \A i \in Handles :
        out[i] # <<>> =>
            /\ obj[i].kind = "gen" => out[i][Len(out[i])] \in {-1, 1}
            /\ obj[i].kind = "lfsr" => out[i][Len(out[i])] \in {0, 1}

\* C9 is checked on a generator that has yielded a period holding both chips
C9Witness ==
    /\ obj["a"].kind = "gen"
    /\ Len(out["a"]) > 1023
    /\ \E n, m \in 1..Len(out["a"]) : out["a"][n] = -1 /\ out["a"][m] = 1

----------------------------------------------------------------------------
(* Invalid input *)

ValidSV == 1..32

\* the SV id handle i was made with
SvOf(i) == gens[obj[i].id].sv

\* C3: ca_code_gen(sv) with sv outside 1..32 fails at the call that makes the
\* generator: the caller never holds a generator for such an sv, and no
\* later pull is what raises the lookup error
C3FailsAtConstruction ==
    \A i \in Handles :
        /\ obj[i].kind = "gen" => SvOf(i) \in ValidSV
        /\ \A n \in 1..Len(exc[i]) : exc[i][n] # "KeyError"

\* C4: for sv outside 1..32 no pull returns a chip: the first pull raises the
\* lookup error, the generator is finished and every later pull finds it so
C4NoChipForInvalidSV ==
    \A i \in Handles :
        (obj[i].kind = "gen" /\ SvOf(i) \notin ValidSV) =>
            /\ out[i] = <<>>
            /\ \A n \in 1..Len(exc[i]) :
                  exc[i][n] = IF n = 1 THEN "KeyError" ELSE "StopIteration"
            /\ exc[i] # <<>> => gens[obj[i].id].pc = "done"

\* C4 is checked on a generator of SV 33 that has been pulled three times
C4Witness ==
    /\ obj["a"].kind = "gen"
    /\ SvOf("a") = 33
    /\ Len(exc["a"]) = 3

\* the tap mask handle i was made with
TapsOf(i) == heap[lfsrs[obj[i].id].taps]

\* C5: lfsr(seed, taps) with len(seed) # 10 or len(taps) # 10 is rejected at
\* construction: the caller never holds such an instance, and none yields a
\* bit
C5RejectsBadLengths ==
    \A i \in Handles :
        obj[i].kind = "lfsr" =>
            /\ Len(given[i]) = 10 /\ Len(TapsOf(i)) = 10
            /\ (Len(given[i]) # 10 \/ Len(TapsOf(i)) # 10) => out[i] = <<>>

----------------------------------------------------------------------------
(* Aliasing *)

\* C6: the seed vector handed to lfsr keeps its contents whatever is pulled:
\* the caller's own vector, and the row init_codes[sv] ca_code_gen hands to
\* LFSR-2
C6SeedUntouched ==
    /\ src.addr # 0 => heap[src.addr] = src.orig
    /\ \A g \in DOMAIN gens :
          gens[g].pc = "yield" =>
              heap[gens[g].init_codes[gens[g].sv]] = InitCodeRows[gens[g].sv]

\* the first n values of an lfsr instance that nothing else shares a list with
RECURSIVE RunLfsr(_, _)
RunLfsr(S, n) ==
    IF n = 0 THEN <<>>
    ELSE LET r == LfsrNext(S, 1) IN <<r.value>> \o RunLfsr(r, n - 1)

LfsrAlone(seed, taps, n) ==
    RunLfsr([heap |-> <<seed, taps>>, lfsrs |-> <<LfsrCall(1, 2)>>,
             gens |-> <<>>], n)

\* C7: of two lfsr instances made from the same seed vector, each yields the
\* sequence it would yield run alone from that seed, however the pulls on
\* the two are interleaved
C7NoInterference ==
    \A i \in Handles :
        obj[i].kind = "lfsr" =>
            out[i] = LfsrAlone(given[i], TapsOf(i), Len(out[i]))

\* the first n chips of a ca_code_gen generator that is the only object
RECURSIVE RunGen(_, _)
RunGen(S, n) ==
    IF n = 0 THEN <<>>
    ELSE LET r == CaNext(S, 1) IN <<r.value>> \o RunGen(r, n - 1)

CaAlone(sv, n) ==
    RunGen([heap |-> <<>>, lfsrs |-> <<>>, gens |-> <<CaCall(sv)>>], n)

\* C8: two generators of the same SV id in 1..32 yield the same chips, and
\* every generator yields the chips it would yield as the only generator,
\* however the pulls on the two (of one SV or of two) are interleaved
C8IndependentGenerators ==
    /\ \A i, j \in Handles :
          (obj[i].kind = "gen" /\ obj[j].kind = "gen" /\ SvOf(i) \in ValidSV
              /\ SvOf(i) = SvOf(j)) =>
              \A n \in 1..Min(Len(out[i]), Len(out[j])) : out[i][n] = out[j][n]
    /\ \A i \in Handles :
          (obj[i].kind = "gen" /\ SvOf(i) \in ValidSV) =>
              out[i] = CaAlone(SvOf(i), Len(out[i]))

\* C8 is checked on two generators of SV 7 pulled eleven and twelve times
C8Witness ==
    /\ obj["a"].kind = "gen" /\ obj["b"].kind = "gen"
    /\ SvOf("a") = 7 /\ SvOf("b") = 7
    /\ Len(out["a"]) = 11 /\ Len(out["b"]) = 12

----------------------------------------------------------------------------
(* Register length *)

\* the lfsr frame l was made from a seed of 10 elements: the caller's own
\* instances by the vector they were given, those of ca_code_gen always
FromSeedOfTen(l) ==
    \A i \in Handles :
        (obj[i].kind = "lfsr" /\ obj[i].id = l) => Len(given[i]) = 10

\* C10: an lfsr made from a 10-element seed holds exactly 10 bits wherever
\* it is suspended at its yield, after any number of steps
C10RegisterLength ==
    \A l \in DOMAIN lfsrs :
        (lfsrs[l].pc = "yield" /\ FromSeedOfTen(l)) =>
            Len(heap[lfsrs[l].state]) = 10

\* C10 is checked on an lfsr instance made from a 10-element seed that has
\* stepped through two code periods
C10Witness ==
    /\ obj["a"].kind = "lfsr"
    /\ Len(given["a"]) = 10
    /\ lfsrs[obj["a"].id].pc = "yield"
    /\ Len(out["a"]) = 2046

----------------------------------------------------------------------------
(* Unbounded production *)

\* C11: for a valid SV id every pull on ca_code_gen(sv) returns one chip:
\* however many chips have been pulled, no pull has raised, the generator is
\* not finished, and the next pull returns a chip as well
C11AlwaysYields ==
    \A i \in Handles :
        (obj[i].kind = "gen" /\ SvOf(i) \in ValidSV) =>
            /\ exc[i] = <<>>
            /\ gens[obj[i].id].pc \in {"start", "yield"}
            /\ CaNext(Cur, obj[i].id).kind = "value"

\* C11 is checked on the generator of the last SV after a period and a half
C11Witness ==
    /\ obj["a"].kind = "gen"
    /\ SvOf("a") = 32
    /\ exc["a"] = <<>>
    /\ Len(out["a"]) = 1535

----------------------------------------------------------------------------
(* The seed is shifted out first *)

\* the register of the lfsr instance of handle i
RegOf(i) == heap[lfsrs[obj[i].id].state]

\* C12: for a 10-bit seed and a 10-bit tap mask the k-th value of
\* lfsr(seed, taps), k = 1..10, is seed[10 - k] (indexed from 0), whatever
\* the taps; lfsr(ten 1s, taps at the indices 2 and 9) yields 1, 1, 1 first,
\* with feedback 0 (the bit put at the front) on each of those three steps
C12SeedShiftedOut ==
    \A i \in Handles :
        (obj[i].kind = "lfsr" /\ Len(given[i]) = 10 /\ Len(TapsOf(i)) = 10) =>
            /\ \A k \in 1..Min(Len(out[i]), 10) : out[i][k] = given[i][11 - k]
            /\ (given[i] = Seed1 /\ TapsOf(i) = Taps1) =>
                  /\ \A k \in 1..Min(Len(out[i]), 3) : out[i][k] = 1
                  /\ Len(out[i]) <= 3 =>
                        \A k \in 1..Len(out[i]) : RegOf(i)[k] = 0

\* C12 is checked on an instance with the mask of LFSR-2 that has yielded
\* all ten bits of a mixed seed
C12Witness ==
    /\ obj["a"].kind = "lfsr"
    /\ given["a"] = <<0, 1, 1, 0, 1, 0, 0, 1, 1, 1>>
    /\ TapsOf("a") = Taps2
    /\ Len(out["a"]) = 10

----------------------------------------------------------------------------
(* Distinct codes *)

\* C13: there is a pair of distinct SV ids in 1..32 whose first 20 chips
\* differ at some position: once the generator of SV 1 has yielded 20 chips,
\* some other SV id has a generator whose first 20 chips are not those
C13SomePairDiffers ==
    \A i \in Handles :
        (obj[i].kind = "gen" /\ SvOf(i) = 1 /\ Len(out[i]) = 20) =>
            \E b \in ValidSV \ {1} :
                \E n \in 1..20 : out[i][n] # CaAlone(b, 20)[n]

\* C13 is checked on the generator of SV 1 with its 20 chips pulled
C13Witness ==
    /\ obj["a"].kind = "gen"
    /\ SvOf("a") = 1
    /\ Len(out["a"]) = 20

----------------------------------------------------------------------------
(* One step of the register *)

\* the XOR of the bits of s at the positions the mask t taps
TappedParity(s, t) == Cardinality({k \in 1..10 : t[k] = 1 /\ s[k] = 1}) % 2

\* the list the lfsr frame l steps at its next() call
RegisterOf(l) ==
    heap[IF lfsrs[l].pc = "start" THEN lfsrs[l].seed ELSE lfsrs[l].state]

\* C14: one step of lfsr on a 10-bit register s with the 10-bit mask t yields
\* the old rear bit s[9], leaves the register [feedback, s[0], ..., s[8]]
\* with feedback the XOR of the tapped bits of s, and leaves the mask as it
\* was
C14StepOfRegister ==
    [][\A i \in Handles :
          (obj[i].kind = "lfsr" /\ out'[i] # out[i]
              /\ Len(RegisterOf(obj[i].id)) = 10 /\ Len(TapsOf(i)) = 10) =>
              LET l == obj[i].id
                  s == RegisterOf(l)
                  t == TapsOf(i)
              IN  /\ out'[i] = Append(out[i], s[10])
                  /\ heap'[lfsrs'[l].state] =
                         <<TappedParity(s, t)>> \o SubSeq(s, 1, 9)
                  /\ lfsrs'[l].taps = lfsrs[l].taps
                  /\ heap'[lfsrs'[l].taps] = t]_vars

\* C14 is checked on an instance with the mask of LFSR-1 that has stepped
\* past its seed, so that feedback bits have been yielded
C14Witness ==
    /\ obj["a"].kind = "lfsr"
    /\ given["a"] = <<1, 0, 1, 1, 0, 0, 1, 0, 1, 1>>
    /\ TapsOf("a") = Taps1
    /\ Len(out["a"]) = 12
    /\ out["a"][11] = 0 /\ out["a"][12] = 1

----------------------------------------------------------------------------
(* One pull of the generator *)

\* the register s after one step with the mask t
Stepped(s, t) == <<TappedParity(s, t)>> \o SubSeq(s, 1, 9)

\* the registers of LFSR-1 and LFSR-2 of the ca_code_gen frame g; before the
\* first pull there are none, and the first pull makes them from the seeds
Reg1(g) ==
    IF gens[g].pc = "start" THEN Seed1
    ELSE heap[lfsrs[gens[g].lfsr1].state]

Reg2(g) ==
    IF gens[g].pc = "start" THEN InitCodeRows[gens[g].sv]
    ELSE heap[lfsrs[gens[g].lfsr2].state]

\* C15: for a valid SV id no register is stepped before the first pull (the
\* call makes no list and no lfsr), and each pull steps LFSR-1 once and
\* LFSR-2 once, so that after n chips both have stepped n times; the chip
\* pulled is +1 when the bits the two steps yield differ and -1 when they
\* are equal
C15OneStepPerPull ==
    /\ [](\A i \in Handles :
            (obj[i].kind = "gen" /\ gens[obj[i].id].pc = "start") =>
                /\ out[i] = <<>>
                /\ gens[obj[i].id].lfsr1 = 0 /\ gens[obj[i].id].lfsr2 = 0)
    /\ [][\A i \in Handles :
            /\ (obj[i].kind = "none" /\ obj'[i].kind = "gen") =>
                  heap' = heap /\ lfsrs' = lfsrs
            /\ (obj[i].kind = "gen" /\ SvOf(i) \in ValidSV
                  /\ out'[i] # out[i]) =>
                  LET g == obj[i].id
                  IN  /\ Reg1(g)' = Stepped(Reg1(g), Taps1)
                      /\ Reg2(g)' = Stepped(Reg2(g), Taps2)
                      /\ out'[i] = Append(out[i],
                             IF Reg1(g)[10] # Reg2(g)[10] THEN 1 ELSE -1)]_vars

\* C15 is checked on the generator of SV 5 in the middle of its second
\* period
C15Witness ==
    /\ obj["a"].kind = "gen"
    /\ SvOf("a") = 5
    /\ gens[obj["a"].id].pc = "yield"
    /\ Len(out["a"]) = 1500

----------------------------------------------------------------------------
(* No stuck register *)

Zeros == [k \in 1..10 |-> 0]

\* with the mask of LFSR-1 or of LFSR-2, lines 70-75 take no 10-bit register
\* other than the zero register to the zero register
StepKeepsNonZero ==
    \A s \in AllSeeds \ {Zeros} :
        \A t \in {Taps1, Taps2} :
            PopRest(Insert0(s, Feedback(s, t))) # Zeros

\* C16: for every SV id in 1..32 and after any number of pulls neither the
\* LFSR-1 register nor the LFSR-2 register of ca_code_gen(sv) is all zeros:
\* the seeds are not, and a step takes no non-zero register to zero
C16RegistersNonZero ==
    /\ StepKeepsNonZero
    /\ \A g \in DOMAIN gens :
          gens[g].sv \in ValidSV => Reg1(g) # Zeros /\ Reg2(g) # Zeros

\* C16 is checked on the generator of SV 16, whose seed row holds a single 1,
\* after a full period
C16Witness ==
    /\ obj["a"].kind = "gen"
    /\ SvOf("a") = 16
    /\ gens[obj["a"].id].pc = "yield"
    /\ Len(out["a"]) = 1023

----------------------------------------------------------------------------
(* Least period *)

\* C17: 1023 is the least period of the code of every SV id in 1..32: the
\* pair of registers is back at its initial value after 1023 pulls and after
\* no smaller number, and no p in 1..1022 has chip[n + p] = chip[n] for all
\* n in 0..1022 (looked at once two periods have been pulled)
C17LeastPeriod ==
    \A i \in Handles :
        (obj[i].kind = "gen" /\ SvOf(i) \in ValidSV /\ out[i] # <<>>) =>
            LET g == obj[i].id
            IN  /\ (Reg1(g) = Seed1 /\ Reg2(g) = InitCodeRows[SvOf(i)])
                      <=> Len(out[i]) % 1023 = 0
                /\ Len(out[i]) = 2046 =>
                      \A p \in 1..1022 :
                          \E n \in 1..1023 : out[i][n + p] # out[i][n]

\* C17 is checked on the generator of SV 1 with its registers back at their
\* initial value after 1023 pulls
C17Witness ==
    /\ obj["a"].kind = "gen"
    /\ SvOf("a") = 1
    /\ Len(out["a"]) = 1023
    /\ Reg1(obj["a"].id) = Seed1
    /\ Reg2(obj["a"].id) = InitCodeRows[1]

----------------------------------------------------------------------------
(* The first chips *)

\* C18: for every SV id sv in 1..32 the first 10 chips of ca_code_gen(sv)
\* are fixed by the seed row: chip k, k = 0..9, is +1 when
\* init_codes[sv][9 - k] is 0 and -1 when it is 1; SV 1 starts
\* +1, +1, -1, -1, +1, -1, -1, -1, -1, -1
C18FirstTenChips ==
    \A i \in Handles :
        (obj[i].kind = "gen" /\ SvOf(i) \in ValidSV) =>
            /\ \A k \in 1..Min(Len(out[i]), 10) :
                  out[i][k] = IF InitCodeRows[SvOf(i)][11 - k] = 0 THEN 1 ELSE -1
            /\ (SvOf(i) = 1 /\ Len(out[i]) >= 10) =>
                  SubSeq(out[i], 1, 10) = <<1, 1, -1, -1, 1, -1, -1, -1, -1, -1>>

\* C18 is checked on the generator of SV 23 with its first ten chips pulled
C18Witness ==
    /\ obj["a"].kind = "gen"
    /\ SvOf("a") = 23
    /\ Len(out["a"]) = 10

\* C19: for every pair of distinct SV ids in 1..32 the first 10 chips of the
\* two generators differ at some position: the ten chips a generator has
\* yielded are those of no other SV id, and the 32 seed rows are pairwise
\* different
C19AllPairsDiffer ==
    /\ \A a, b \in ValidSV : a # b => InitCodeRows[a] # InitCodeRows[b]
    /\ \A i \in Handles :
          (obj[i].kind = "gen" /\ SvOf(i) \in ValidSV /\ Len(out[i]) = 10) =>
              \A b \in ValidSV \ {SvOf(i)} :
                  \E n \in 1..10 : out[i][n] # CaAlone(b, 10)[n]

\* C19 is checked on the generator of the last SV id with its first ten
\* chips pulled
C19Witness ==
    /\ obj["a"].kind = "gen"
    /\ SvOf("a") = 32
    /\ Len(out["a"]) = 10
    /\ exc["a"] = <<>>

====
